---- MODULE Spec2Model ----
(***************************************************************************)
(* A model of scripts/extract_cover_colors.py: the scoring function        *)
(* color_score, the extractor get_dominant_color and the batch loop main.  *)
(*                                                                         *)
(* Numbers.  Python floats are modelled by exact fixed point and exact     *)
(* fractions.  A channel value x handed to color_score is held as 4*x, so  *)
(* that x / 255.0 is held in units of 1/1020 (0.45 is 459, 0.9 is 918,     *)
(* 0.95 is 969, 1.0 is 1020).  A saturation or a score is held as a        *)
(* fraction [n, d] and fractions are compared exactly.                     *)
(***************************************************************************)
EXTENDS Integers, Sequences, FiniteSets, TLC

VARIABLES
    \* ---- main() ----
    pc,         \* position of main(): "start", "loop", "fetching", "write",
                \* "dump", "report", "done"
    file,       \* content of _data/books.json: [state, data]
    orig,       \* the catalog the file held when the run began (history)
    books,      \* the in-memory list loaded by json.load
    i,          \* 0-based loop index of enumerate(books)
    updated,    \* the counter `updated`
    inflight,   \* set of record indices whose HTTP request is in progress
    net,        \* net[k]: the response the k-th record's fetch received (history)
    out,        \* the lines printed so far
    opens,      \* number of times the file was opened for writing
    \* ---- get_dominant_color() on its own ----
    epc, pixels, bucketed, filtered, top_colors, best, result,
    \* ---- color_score() and bucket() on their own ----
    cpc, rgb, quant, hsv, bright_term, score

mainVars    == <<pc, file, orig, books, i, updated, inflight, net, out, opens>>
extractVars == <<epc, pixels, bucketed, filtered, top_colors, best, result>>
colorVars   == <<cpc, rgb, quant, hsv, bright_term, score>>
vars        == <<mainVars, extractVars, colorVars>>

----------------------------------------------------------------------------
(* Arithmetic helpers *)

Abs(x)     == IF x < 0 THEN -x ELSE x
Max2(a, b) == IF a < b THEN b ELSE a
Min2(a, b) == IF a < b THEN a ELSE b
Max3(t)    == Max2(t[1], Max2(t[2], t[3]))
Min3(t)    == Min2(t[1], Min2(t[2], t[3]))
Sum3(t)    == t[1] + t[2] + t[3]

\* a/b < c/d for a, c >= 0 and b, d > 0, by comparing integer parts and then
\* the reciprocals of the remainders (no product is formed, so no overflow)
RECURSIVE RatLess(_, _, _, _)
RatLess(a, b, c, d) ==
    LET qa == a \div b
        qc == c \div d
        ra == a % b
        rc == c % d
    IN  IF qa # qc THEN qa < qc
        ELSE IF rc = 0 THEN FALSE
        ELSE IF ra = 0 THEN TRUE
        ELSE RatLess(d, rc, b, ra)

\* the fixed-point form of a channel triple of whole numbers
Fix(p) == [k \in 1..3 |-> 4 * p[k]]

----------------------------------------------------------------------------
(* color_score, lines 13-21 *)

\* colorsys.rgb_to_hsv on r, g, b in units of 1/1020; the hue is not used by
\* the caller and is left out.  s is the fraction rangec / maxc.
rgb_to_hsv(r, g, b) ==
    LET maxc == Max3(<<r, g, b>>)
        minc == Min3(<<r, g, b>>)
    IN  IF minc = maxc
        THEN [s |-> [n |-> 0, d |-> 1], v |-> maxc]
        ELSE [s |-> [n |-> maxc - minc, d |-> maxc], v |-> maxc]

\* line 20: bright_score = 1.0 - abs(v - 0.45) * 2, in units of 1/1020
\* variant: the decay scaled so that the term is 0 at v = 0.0 and v = 0.9
bright_score_zero_at_ends(v) == 1020 - (Abs(v - 459) * 20) \div 9
bright_score(v) == 1020 - Abs(v - 459) * 2

\* line 21: sat_score * 0.7 + max(bright_score, 0) * 0.3, as a fraction.
\* The result carries the locals too: [s, v, bright, score].
color_score(c) ==
    LET h == rgb_to_hsv(c[1], c[2], c[3])
        b == Max2(bright_score(h.v), 0)
    IN  [s |-> h.s, v |-> h.v, bright |-> b,
         score |-> [n |-> 7140 * h.s.n + 3 * b * h.s.d, d |-> 10200 * h.s.d]]

\* key order used by max(top_colors, key=color_score) on bucket colours
ScoreLess(p, q) ==
    LET a == color_score(Fix(p)).score
        b == color_score(Fix(q)).score
    IN  RatLess(a.n, a.d, b.n, b.d)

----------------------------------------------------------------------------
(* get_dominant_color, lines 30-52 *)

TopN == 8

\* lines 36-37: bucket(pixel)
\* variant: rounding to the nearest multiple of 32 instead of the bin midpoint
bucket_round_nearest(pixel) == [k \in 1..3 |-> ((pixel[k] + 16) \div 32) * 32]
bucket(pixel) == [k \in 1..3 |-> (pixel[k] \div 32) * 32 + 16]

\* line 39
bucketed_of(px) == [k \in 1..Len(px) |-> bucket(px[k])]

\* line 42: the condition of the comprehension
\* variant: the bounds taken inclusively
keep_inclusive(p) == 80 <= Sum3(p) /\ Sum3(p) <= 660
keep(p) == 80 < Sum3(p) /\ Sum3(p) < 660

\* lines 42-44: the filter and its fallback
\* variants: without lines 43-44, and without the filter
filtered_of_no_fallback(b) == SelectSeq(b, keep)
filtered_of_no_filter(b) == b
filtered_of(b) ==
    LET f == SelectSeq(b, keep)
    IN  IF f = <<>> THEN b ELSE f

\* line 47: Counter(filtered): the distinct colours in order of first
\* occurrence (dict insertion order), each with its count
RECURSIVE Keys(_)
Keys(s) ==
    IF s = <<>> THEN <<>>
    ELSE LET front == Keys(SubSeq(s, 1, Len(s) - 1))
             last  == s[Len(s)]
         IN  IF \E k \in 1..Len(front) : front[k] = last
             THEN front ELSE Append(front, last)

Count(s, c) == Cardinality({k \in 1..Len(s) : s[k] = c})

Counter(s) ==
    LET ks == Keys(s)
    IN  [k \in 1..Len(ks) |-> [color |-> ks[k], n |-> Count(s, ks[k])]]

\* line 48: Counter.most_common(n) is heapq.nlargest(n, items, key=count),
\* which equals sorted(items, key=count, reverse=True)[:n]: a stable sort, so
\* items of equal count keep their insertion order
RECURSIVE SortedByCount(_)
SortedByCount(items) ==
    IF items = <<>> THEN <<>>
    ELSE LET front == SortedByCount(SubSeq(items, 1, Len(items) - 1))
             x     == items[Len(items)]
             p     == Cardinality({k \in 1..Len(front) : front[k].n >= x.n})
         IN  SubSeq(front, 1, p) \o <<x>> \o SubSeq(front, p + 1, Len(front))

\* variant: the count limit ignored
most_common_untruncated(items, n) == SortedByCount(items)
most_common(items, n) ==
    LET s == SortedByCount(items)
    IN  SubSeq(s, 1, Min2(n, Len(s)))

top_colors_of(f) ==
    LET mc == most_common(Counter(f), TopN)
    IN  [k \in 1..Len(mc) |-> mc[k].color]

\* line 51: max(seq, key=color_score): the first element of maximal key;
\* max() of an empty sequence raises ValueError
RECURSIVE MaxByScore(_)
MaxByScore(s) ==
    IF Len(s) = 1 THEN s[1]
    ELSE LET b == MaxByScore(SubSeq(s, 1, Len(s) - 1))
             x == s[Len(s)]
         IN  IF ScoreLess(b, x) THEN x ELSE b

NoColor == <<>>

best_of(top) == IF top = <<>> THEN NoColor ELSE MaxByScore(top)

\* line 52: "#{:02x}{:02x}{:02x}".format(*best)
HexDigit == <<"0", "1", "2", "3", "4", "5", "6", "7",
              "8", "9", "a", "b", "c", "d", "e", "f">>

RECURSIVE HexStr(_)
HexStr(n) ==
    IF n < 16 THEN HexDigit[n + 1]
    ELSE HexStr(n \div 16) \o HexDigit[(n % 16) + 1]

Fmt02x(n) == IF n < 16 THEN "0" \o HexStr(n) ELSE HexStr(n)

\* variant: the channels written in reverse order
format_hex_bgr(c) == "#" \o Fmt02x(c[3]) \o Fmt02x(c[2]) \o Fmt02x(c[1])
format_hex(c) == "#" \o Fmt02x(c[1]) \o Fmt02x(c[2]) \o Fmt02x(c[3])

\* lines 33-52 on the pixel list of the resized image; the locals are kept
get_dominant_color(px) ==
    LET b == bucketed_of(px)
        f == filtered_of(b)
        t == top_colors_of(f)
        w == best_of(t)
    IN  [bucketed |-> b, filtered |-> f, top_colors |-> t, best |-> w,
         result |-> IF w = NoColor THEN "ValueError" ELSE format_hex(w)]

----------------------------------------------------------------------------
(* Values that stand for "this part of the program is not running" *)

NoScore == [s |-> [n |-> 0, d |-> 1], v |-> 0, bright |-> 0,
            score |-> [n |-> 0, d |-> 1]]

MainIdle ==
    /\ pc = "idle" /\ file = [state |-> "complete", data |-> <<>>]
    /\ orig = <<>> /\ books = <<>> /\ i = 0 /\ updated = 0
    /\ inflight = {} /\ net = <<>> /\ out = <<>> /\ opens = 0

ExtractIdle ==
    /\ epc = "idle" /\ pixels = <<>> /\ bucketed = <<>> /\ filtered = <<>>
    /\ top_colors = <<>> /\ best = NoColor /\ result = ""

ColorIdle ==
    /\ cpc = "idle" /\ rgb = <<0, 0, 0>> /\ quant = NoColor
    /\ hsv = NoScore.s /\ bright_term = 0 /\ score = NoScore.score

----------------------------------------------------------------------------
(* color_score and bucket applied to one colour *)

\* whole-number colours: every channel value 0..255 in each position
WholeColors ==
    {<<c, d, e>> : c \in 0..255, d \in {0, 30, 255}, e \in {0, 255}}
    \cup {<<d, c, e>> : c \in 0..255, d \in {0, 30, 255}, e \in {0, 255}}
    \cup {<<d, e, c>> : c \in 0..255, d \in {0, 30, 255}, e \in {0, 255}}

\* colours whose largest channel is 114.75, 229.5 and 242.25, so that the
\* HSV value is exactly 0.45, 0.9 and 0.95 (fixed point, see the head)
FractionColors ==
    {<<m, d, e>> : m \in {459, 918, 969}, d \in {0, 120, 459}, e \in {0, 120}}

IsWhole(c) == \A k \in 1..3 : c[k] % 4 = 0

InitColor ==
    /\ MainIdle /\ ExtractIdle
    /\ cpc = "input"
    /\ rgb \in {Fix(p) : p \in WholeColors} \cup FractionColors
    /\ quant = NoColor /\ hsv = NoScore.s /\ bright_term = 0
    /\ score = NoScore.score

\* bucket(pixel) on a pixel of the decoded image
ApplyBucket ==
    /\ cpc = "input" /\ IsWhole(rgb)
    /\ quant' = bucket([k \in 1..3 |-> rgb[k] \div 4])
    /\ cpc' = "bucketed"
    /\ UNCHANGED <<rgb, hsv, bright_term, score, mainVars, extractVars>>

\* color_score(rgb)
ApplyScore ==
    /\ cpc \in {"input", "bucketed"}
    /\ LET r == color_score(rgb)
       IN  /\ hsv' = [s |-> r.s, v |-> r.v]
           /\ bright_term' = r.bright
           /\ score' = r.score
    /\ cpc' = "scored"
    /\ UNCHANGED <<rgb, quant, mainVars, extractVars>>

NextColor == ApplyBucket \/ ApplyScore

SpecColor == InitColor /\ [][NextColor]_vars

----------------------------------------------------------------------------
(* get_dominant_color applied to the pixel list of one decoded image *)

MaxTail == 3

Black   == <<0, 0, 0>>         \* bucket (16,16,16),    sum 48
Navy    == <<0, 0, 40>>        \* bucket (16,16,48),    sum 80
Teal    == <<0, 40, 40>>       \* bucket (16,48,48),    sum 112
Cream   == <<255, 255, 170>>   \* bucket (240,240,176), sum 656
Ivory   == <<255, 255, 200>>   \* bucket (240,240,208), sum 688
White   == <<255, 255, 255>>   \* bucket (240,240,240), sum 720
Red     == <<200, 40, 40>>     \* bucket (208,48,48)
Green   == <<40, 200, 40>>     \* bucket (48,208,48), scores as Red does
Grey(x) == <<x, x, x>>

Palette == {Black, Navy, Teal, Cream, Ivory, White, Red, Green}

\* nine colours that all pass the filter, the best-scoring one (Red) last
NineColors ==
    <<Grey(50), Grey(90), Grey(100), Grey(130), Grey(170), Grey(200),
      Teal, Cream, Red>>

SeqsUpTo(S, n) == UNION {[1..m -> S] : m \in 0..n}

\* the resized image always has pixels (80 x 80 in the program)
ExtractInputs ==
    {b \o t : b \in {<<>>, NineColors}, t \in SeqsUpTo(Palette, MaxTail)}
    \ {<<>>}

InitExtract ==
    /\ MainIdle /\ ColorIdle
    /\ epc = "decoded"
    /\ pixels \in ExtractInputs
    /\ bucketed = <<>> /\ filtered = <<>> /\ top_colors = <<>>
    /\ best = NoColor /\ result = ""

\* lines 33-52
Extract ==
    /\ epc = "decoded"
    /\ LET r == get_dominant_color(pixels)
       IN  /\ bucketed' = r.bucketed
           /\ filtered' = r.filtered
           /\ top_colors' = r.top_colors
           /\ best' = r.best
           /\ result' = r.result
    /\ epc' = "returned"
    /\ UNCHANGED <<pixels, mainVars, colorVars>>

NextExtract == Extract

SpecExtract == InitExtract /\ [][NextExtract]_vars

----------------------------------------------------------------------------
(* main, lines 55-82 *)

MaxBooks == 3

\* A book is a JSON object: a function from the field names it has to their
\* values.  None is what json.load gives for null and what dict.get gives
\* for a missing key.
None == "<None>"

Get(book, f, default) == IF f \in DOMAIN book THEN book[f] ELSE default

\* variant: the record replaced by one holding the field alone
SetFieldAlone(book, f, v) == [g \in {f} |-> v]
SetField(book, f, v) ==
    [g \in DOMAIN book \cup {f} |-> IF g = f THEN v ELSE book[g]]

\* `not url`
Falsy(url) == url \in {None, ""}

InputBooks ==
    LET base == [f \in {"title"} |-> "T"]
        withUrl == {base} \cup {SetField(base, "image_url", u) :
                                    u \in {"", None, "http://x/a.png"}}
    IN  withUrl \cup {SetField(b, "cover_color", "#0ld000") : b \in withUrl}

InputCatalogs == SeqsUpTo(InputBooks, MaxBooks)

Solid(c, n) == [k \in 1..n |-> c]

\* what a fetch can bring: the pixel list of the decoded, resized image
ServedImages ==
    {Solid(Red, 1), Solid(Black, 2), Solid(White, 1), <<Navy, Red, White>>}

Init ==
    /\ ExtractIdle /\ ColorIdle
    /\ pc = "start"
    /\ orig \in InputCatalogs
    /\ file = [state |-> "complete", data |-> orig]
    /\ books = <<>> /\ i = 0 /\ updated = 0
    /\ inflight = {} /\ net = <<>> /\ out = <<>> /\ opens = 0

Line(kind, text) ==
    [idx |-> i + 1, total |-> Len(books),
     title |-> Get(books[i + 1], "title", "?"), kind |-> kind, text |-> text]

\* lines 56-60
Load ==
    /\ pc = "start"
    /\ books' = file.data
    /\ updated' = 0
    /\ i' = 0
    /\ pc' = "loop"
    /\ UNCHANGED <<file, orig, inflight, net, out, opens, extractVars, colorVars>>

\* lines 61-67: a record without an image URL
Skip ==
    /\ pc = "loop" /\ i < Len(books)
    /\ Falsy(Get(books[i + 1], "image_url", None))
    /\ out' = Append(out, Line("skipped", "no image URL, skipped"))
    /\ net' = Append(net, [kind |-> "none", img |-> <<>>])
    /\ i' = i + 1
    /\ UNCHANGED <<pc, file, orig, books, updated, inflight, opens,
                   extractVars, colorVars>>

\* lines 69-71 and 26-27: the progress line, then the request goes out
StartFetch ==
    /\ pc = "loop" /\ i < Len(books)
    /\ ~Falsy(Get(books[i + 1], "image_url", None))
    /\ out' = Append(out, Line("progress", "..."))
    /\ inflight' = inflight \cup {i + 1}
    /\ pc' = "fetching"
    /\ UNCHANGED <<file, orig, books, i, updated, net, opens,
                   extractVars, colorVars>>

\* variant of the handler below that also drops the record's cover_color
FailedAndCleared(reason) ==
    /\ out' = Append(out, Line("error", reason))
    /\ net' = Append(net, [kind |-> reason, img |-> <<>>])
    /\ inflight' = inflight \ {i + 1}
    /\ i' = i + 1
    /\ pc' = "loop"
    /\ books' = [books EXCEPT ![i + 1] = [g \in DOMAIN @ \ {"cover_color"} |-> @[g]]]
    /\ UNCHANGED <<file, orig, updated, opens, extractVars, colorVars>>

\* lines 75-76: except Exception as e
Failed(reason) ==
    /\ out' = Append(out, Line("error", reason))
    /\ net' = Append(net, [kind |-> reason, img |-> <<>>])
    /\ inflight' = inflight \ {i + 1}
    /\ i' = i + 1
    /\ pc' = "loop"
    /\ UNCHANGED <<file, orig, books, updated, opens, extractVars, colorVars>>

\* lines 27-28: urlopen or read raises (network, HTTP status, timeout)
FetchFails ==
    /\ pc = "fetching"
    /\ Failed("FetchError")

\* line 30: Image.open raises on a payload that is no image
DecodeFails ==
    /\ pc = "fetching"
    /\ Failed("DecodeError")

\* lines 72-74: the colour is stored and counted
Stored(img, color) ==
    /\ books' = [books EXCEPT ![i + 1] = SetField(@, "cover_color", color)]
    /\ updated' = updated + 1
    /\ out' = Append(out, Line("color", color))
    /\ net' = Append(net, [kind |-> "image", img |-> img])
    /\ inflight' = inflight \ {i + 1}
    /\ i' = i + 1
    /\ pc' = "loop"
    /\ UNCHANGED <<orig, extractVars, colorVars>>

\* variant of the action below that saves the catalog after each colour
ColoredAndSaved ==
    /\ pc = "fetching"
    /\ \E img \in ServedImages :
         LET r == get_dominant_color(img)
         IN  IF r.result = "ValueError"
             THEN Failed("ValueError")
             ELSE /\ Stored(img, r.result)
                  /\ file' = [state |-> "complete", data |-> books']
                  /\ opens' = opens + 1

\* lines 28-52 and 71-76: the image arrives and get_dominant_color runs on
\* it; a ValueError of max() on no candidates is caught like any failure
Colored ==
    /\ pc = "fetching"
    /\ \E img \in ServedImages :
         LET r == get_dominant_color(img)
         IN  IF r.result = "ValueError"
             THEN Failed("ValueError")
             ELSE Stored(img, r.result) /\ UNCHANGED <<file, opens>>

\* the for loop is exhausted
LoopEnd ==
    /\ pc = "loop" /\ i = Len(books)
    /\ pc' = "write"
    /\ UNCHANGED <<file, orig, books, i, updated, inflight, net, out, opens,
                   extractVars, colorVars>>

\* line 78: open(data_path, "w") truncates the file
OpenWrite ==
    /\ pc = "write"
    /\ file' = [state |-> "truncated", data |-> <<>>]
    /\ opens' = opens + 1
    /\ pc' = "dump"
    /\ UNCHANGED <<orig, books, i, updated, inflight, net, out,
                   extractVars, colorVars>>

\* lines 79-80: json.dump, the newline, and the close of the with block
Dump ==
    /\ pc = "dump"
    /\ file' = [state |-> "complete", data |-> books]
    /\ pc' = "report"
    /\ UNCHANGED <<orig, books, i, updated, inflight, net, out, opens,
                   extractVars, colorVars>>

\* line 82
Report ==
    /\ pc = "report"
    /\ out' = Append(out, [idx |-> updated, total |-> Len(books),
                           title |-> "", kind |-> "done", text |-> "Done!"])
    /\ pc' = "done"
    /\ UNCHANGED <<file, orig, books, i, updated, inflight, net, opens,
                   extractVars, colorVars>>

Next ==
    \/ Load \/ Skip \/ StartFetch \/ FetchFails \/ DecodeFails \/ Colored
    \/ LoopEnd \/ OpenWrite \/ Dump \/ Report

Spec == Init /\ [][Next]_vars

----------------------------------------------------------------------------
(* Properties of main *)

Range(q) == {q[k] : k \in 1..Len(q)}

OtherFields(b) == DOMAIN b \ {"cover_color"}

\* record a came from record b with nothing but cover_color added or overwritten
SameButColor(a, b) ==
    /\ OtherFields(a) = OtherFields(b)
    /\ \A f \in OtherFields(b) : a[f] = b[f]
    /\ "cover_color" \in DOMAIN b => "cover_color" \in DOMAIN a

NoImageUrl(b) == "image_url" \notin DOMAIN b \/ b["image_url"] \in {"", None}

Written == pc \in {"report", "done"}

Succeeded == {k \in 1..Len(net) : net[k].kind = "image"}
FailedAt  == {k \in 1..Len(net) : net[k].kind \in {"FetchError", "DecodeError", "ValueError"}}

\* C1: the catalog main() writes has the records of the input, in the same
\* order, each equal to its input record except that cover_color may have
\* been added or overwritten; a record without an image URL is written back
\* unchanged.
C1_FrameEffect ==
    Written =>
        /\ file.state = "complete"
        /\ Len(file.data) = Len(orig)
        /\ \A k \in 1..Len(orig) :
             /\ SameButColor(file.data[k], orig[k])
             /\ NoImageUrl(orig[k]) => file.data[k] = orig[k]

C1_Witness ==
    /\ pc = "done" /\ Len(orig) = 3
    /\ \E k \in 1..3 : /\ "cover_color" \in DOMAIN orig[k]
                       /\ file.data[k] # orig[k]
    /\ \E k \in 1..3 : /\ "cover_color" \notin DOMAIN orig[k]
                       /\ "cover_color" \in DOMAIN file.data[k]
    /\ \E k \in 1..3 : /\ NoImageUrl(orig[k])
                       /\ "cover_color" \in DOMAIN orig[k]
                       /\ file.data[k] = orig[k]

\* C2: a failed extraction leaves that record exactly as it was and the loop
\* goes on to every later record; cover_color is the extracted hex on exactly
\* the records whose extraction succeeded, and `updated` (and the count
\* reported at the end) is the number of those records.
C2_FailureContained ==
    /\ pc \notin {"start", "idle"} =>
         /\ \A k \in FailedAt : books[k] = orig[k]
         /\ \A k \in Succeeded :
              /\ "cover_color" \in DOMAIN books[k]
              /\ books[k]["cover_color"] = get_dominant_color(net[k].img).result
         /\ \A k \in 1..Len(books) :
              k \notin Succeeded => books[k] = orig[k]
         /\ updated = Cardinality(Succeeded)
    /\ pc \in {"write", "dump", "report", "done"} => Len(net) = Len(orig)
    /\ pc = "done" =>
         /\ file.data = books
         /\ out[Len(out)].kind = "done"
         /\ out[Len(out)].idx = Cardinality(Succeeded)
         /\ out[Len(out)].total = Len(orig)

C2_Witness ==
    /\ pc = "done" /\ Len(orig) = 3
    /\ \A k \in 1..3 : "cover_color" \notin DOMAIN orig[k]
    /\ net[1].kind = "image" /\ net[2].kind = "FetchError" /\ net[3].kind = "image"
    /\ "cover_color" \in DOMAIN file.data[1]
    /\ "cover_color" \notin DOMAIN file.data[2]
    /\ "cover_color" \in DOMAIN file.data[3]
    /\ out[Len(out)].idx = 2 /\ out[Len(out)].total = 3

\* the printed per-record lines come in list order: record 1 first, each
\* record's lines together, a progress line followed by its outcome
InListOrder ==
    \A a \in 1..Len(out) :
        out[a].kind # "done" =>
            IF out[a].kind \in {"skipped", "progress"}
            THEN out[a].idx = (IF a = 1 THEN 1 ELSE out[a - 1].idx + 1)
                 /\ (a > 1 => out[a - 1].kind # "progress")
            ELSE a > 1 /\ out[a - 1].kind = "progress"
                 /\ out[a].idx = out[a - 1].idx

\* C3: records are processed strictly in list order with at most one fetch
\* in progress; the file is opened for writing exactly once, only after the
\* last record was processed, and holds its original content until then.
C3_SequentialSingleWrite ==
    /\ InListOrder
    /\ Len(net) = i
    /\ Cardinality(inflight) <= 1
    /\ inflight \subseteq {i + 1}
    /\ (inflight # {}) = (pc = "fetching")
    /\ pc \in {"start", "loop", "fetching", "write"} =>
         opens = 0 /\ file = [state |-> "complete", data |-> orig]
    /\ pc \in {"dump", "report", "done"} =>
         opens = 1 /\ i = Len(orig) /\ Len(net) = Len(orig)
    /\ pc \in {"report", "done"} => file = [state |-> "complete", data |-> books]

C3_Witness ==
    /\ pc = "done" /\ opens = 1 /\ Len(orig) = 3
    /\ Succeeded # {} /\ FailedAt # {}
    /\ \E k \in 1..3 : net[k].kind = "none"
    /\ file.data # orig

IsSolid(img, c) == Len(img) >= 1 /\ \A k \in 1..Len(img) : img[k] = c

\* C8: when the fetched image is one solid colour c, the record's
\* cover_color becomes the lowercase #rrggbb hex of the bucket of c, whether
\* or not the bucket passes the filter: (200,40,40) gives "#d03030", pure
\* black "#101010", pure white "#f0f0f0".
C8_SolidImage ==
    pc \notin {"start", "idle"} =>
        \A k \in Succeeded :
            /\ IsSolid(net[k].img, <<200, 40, 40>>) =>
                 books[k]["cover_color"] = "#d03030"
            /\ IsSolid(net[k].img, <<0, 0, 0>>) =>
                 books[k]["cover_color"] = "#101010"
            /\ IsSolid(net[k].img, <<255, 255, 255>>) =>
                 books[k]["cover_color"] = "#f0f0f0"
            /\ Written => file.data[k] = books[k]

C8_Witness ==
    /\ pc = "done" /\ Len(orig) = 1
    /\ DOMAIN orig[1] = {"title", "image_url"}
    /\ IsSolid(net[1].img, <<200, 40, 40>>)
    /\ file.data[1]["cover_color"] = "#d03030"

----------------------------------------------------------------------------
(* Properties of bucket and color_score *)

Levels == {16, 48, 80, 112, 144, 176, 208, 240}

\* C4: each channel value c in 0..255 is bucketed to floor(c/32)*32+16: one of
\* the 8 values 16, 48, ..., 240, the one whose bin [q-16, q+15] holds c, so
\* within 16 of c; the bucketed colours number at most 512.
C4_QuantizationRange ==
    cpc = "bucketed" =>
        /\ \A k \in 1..3 :
             LET c == rgb[k] \div 4
             IN  /\ quant[k] \in Levels
                 /\ quant[k] - 16 <= c /\ c <= quant[k] + 15
                 /\ Abs(quant[k] - c) <= 16
        /\ Cardinality(Levels) = 8
        /\ quant \in Levels \X Levels \X Levels
        /\ Cardinality(Levels \X Levels \X Levels) <= 512

C4_Witness ==
    /\ cpc = "bucketed"
    /\ rgb = <<0, 4 * 255, 4 * 30>>
    /\ quant = <<16, 240, 16>>

\* C7 as stated: the brightness term is 1.0 at v = 0.45 and is 0.0 at
\* v = 0.0 and for every v >= 0.9.
C7_AsStated ==
    cpc = "scored" =>
        /\ hsv.v = 459 => bright_term = 1020
        /\ hsv.v = 0 => bright_term = 0
        /\ hsv.v >= 918 => bright_term = 0

\* C7 amended: the brightness term max(1 - |v - 0.45| * 2, 0) is 1.0 at
\* v = 0.45, falls linearly by 2 per unit of |v - 0.45|, is 0.1 at v = 0.0
\* and at v = 0.9, and is 0.0 only from v = 0.95 on (for 8-bit colours:
\* exactly when the largest channel is >= 243); the score is
\* 0.7 * saturation + 0.3 * brightness term.
C7_BrightnessTerm ==
    cpc = "scored" =>
        /\ hsv.v = Max3(rgb)
        /\ hsv.v = 459 => bright_term = 1020
        /\ hsv.v = 0 => bright_term = 102
        /\ hsv.v = 918 => bright_term = 102
        /\ (hsv.v >= 969) = (bright_term = 0)
        /\ IsWhole(rgb) => ((Max3(rgb) \div 4 >= 243) = (bright_term = 0))
        /\ hsv.v <= 969 => bright_term = 1020 - 2 * Abs(hsv.v - 459)
        /\ hsv.s.n * Max3(rgb) = (Max3(rgb) - Min3(rgb)) * hsv.s.d
        /\ score.d = 10200 * hsv.s.d
        /\ score.n = 7140 * hsv.s.n + 3 * bright_term * hsv.s.d

C7_Witness ==
    /\ cpc = "scored"
    /\ rgb = <<0, 0, 0>>
    /\ bright_term = 102
    /\ score = [n |-> 306, d |-> 10200]

----------------------------------------------------------------------------
(* Properties of get_dominant_color *)

InBand(p) == 80 < p[1] + p[2] + p[3] /\ p[1] + p[2] + p[3] < 660

Returned == epc = "returned"

\* C5: the filter keeps a bucket colour exactly when its channel sum s has
\* 80 < s < 660: whenever any colour survives, the filtered list is the
\* bucketed list without the colours of sum <= 80 or >= 660, in order; sums
\* 79, 80, 660 and 661 are excluded, 81 and 659 are kept.
C5_FilterBand ==
    /\ (Returned /\ \E k \in 1..Len(bucketed) : InBand(bucketed[k])) =>
         filtered = SelectSeq(bucketed, InBand)
    /\ \A x \in {79, 80, 660, 661} : ~keep(<<x - 32, 16, 16>>)
    /\ \A x \in {81, 659} : keep(<<x - 32, 16, 16>>)

C5_Witness ==
    /\ Returned
    /\ <<16, 16, 48>> \in Range(bucketed) /\ <<16, 16, 48>> \notin Range(filtered)
    /\ <<16, 48, 48>> \in Range(filtered)
    /\ <<240, 240, 176>> \in Range(filtered)
    /\ <<240, 240, 208>> \in Range(bucketed) /\ <<240, 240, 208>> \notin Range(filtered)

\* C6: when the filter removes every bucketed pixel, the selection runs over
\* the unfiltered buckets; get_dominant_color never fails for lack of
\* candidates and returns a colour for every decoded image.
C6_FallbackOnEmptyFilter ==
    Returned =>
        /\ result # "ValueError"
        /\ best # NoColor
        /\ top_colors # <<>>
        /\ (\A k \in 1..Len(bucketed) : ~InBand(bucketed[k])) =>
             /\ filtered = bucketed
             /\ best \in Range(bucketed)

C6_Witness ==
    /\ Returned
    /\ pixels = <<<<0, 0, 0>>, <<0, 0, 0>>, <<0, 0, 0>>>>
    /\ filtered = bucketed
    /\ result = "#101010"

\* rank of a surviving colour: more frequent first, first seen first among
\* equally frequent
FirstSeen(f, c) == CHOOSE k \in 1..Len(f) : f[k] = c /\ \A j \in 1..(k - 1) : f[j] # c
Occurs(f, c)    == Cardinality({k \in 1..Len(f) : f[k] = c})
Outranks(f, a, b) ==
    \/ Occurs(f, a) > Occurs(f, b)
    \/ Occurs(f, a) = Occurs(f, b) /\ FirstSeen(f, a) < FirstSeen(f, b)
RankOf(f, c) == Cardinality({a \in Range(f) : Outranks(f, a, c)})
Candidates   == {c \in Range(filtered) : RankOf(filtered, c) < 8}

\* C9: the candidates are the (at most) 8 most frequent surviving colours,
\* ranked by count and then by first occurrence; the colour returned is a
\* candidate of maximal color_score, the earliest-ranked one among those of
\* equal maximal score; a colour outside the candidates is never returned.
C9_CandidateSelection ==
    Returned =>
        /\ Len(top_colors) = Cardinality(Candidates)
        /\ Len(top_colors) <= 8
        /\ \A k \in 1..Len(top_colors) :
             /\ top_colors[k] \in Candidates
             /\ RankOf(filtered, top_colors[k]) = k - 1
        /\ best \in Candidates
        /\ \A c \in Candidates :
             /\ ~ScoreLess(best, c)
             /\ ~ScoreLess(c, best) =>
                  RankOf(filtered, best) <= RankOf(filtered, c)
        /\ result = format_hex(best)

C9_Witness ==
    /\ Returned
    /\ Cardinality(Range(filtered)) > 8
    /\ \E c \in Range(filtered) \ Candidates : ScoreLess(best, c)

\* C10: the colour returned is the bucket of at least one pixel of the
\* image, and when some pixel's bucket has a channel sum strictly between 80
\* and 660, so has the colour returned.
C10_ReturnedIsAPixelBucket ==
    Returned =>
        /\ \E k \in 1..Len(pixels) :
             \A ch \in 1..3 :
                 /\ best[ch] \in Levels
                 /\ best[ch] - 16 <= pixels[k][ch]
                 /\ pixels[k][ch] <= best[ch] + 15
        /\ (\E k \in 1..Len(pixels) :
                InBand([ch \in 1..3 |-> (pixels[k][ch] \div 32) * 32 + 16]))
             => InBand(best)
        /\ ~InBand(best) =>
             \A k \in 1..Len(pixels) :
                 ~InBand([ch \in 1..3 |-> (pixels[k][ch] \div 32) * 32 + 16])
        /\ result = format_hex(best)

C10_Witness ==
    /\ Returned
    /\ InBand(best)
    /\ \E k \in 1..Len(bucketed) :
         ~InBand(bucketed[k]) /\ ScoreLess(best, bucketed[k])

====
